---- MODULE Spec2Model ----
(***************************************************************************)
(* Auto-send scheduling engine of the channel automation backend.          *)
(*                                                                         *)
(*  - Slot State Classifier: getChannelState / calculateChannelStates of   *)
(*    src/src/utils/channelAutomationState.ts, a pure function of the      *)
(*    fleet, the window and the minute of day (specification SpecClassify).*)
(*  - Tick Processor: processAutoSendTick, started every minute by the     *)
(*    cron callback of the backend entry point (specification Spec).       *)
(***************************************************************************)
EXTENDS Integers, Sequences, FiniteSets, TLC

VARIABLES
    channels,            \* classifier input: the fleet, a sequence of Channel
    minIntervalMinutes,  \* classifier input: the window argument
    nowMinutes,          \* classifier input: now.getHours()*60 + now.getMinutes()
    states,              \* classifier output: <<>> before the call, <<map>> after
    pc,                  \* "input" before calculateChannelStates ran, "done"
                         \* after its first call, "again" after a later one
    db,                  \* the store: the sequence of the stored Channel records
    clock,               \* the wall clock: [date, minute]
    ticks,               \* the invocations of processAutoSendTick, in start order
    calls,               \* the invocations of the generation collaborator so far
    recorded,            \* the lastRunAt writes the store accepted so far
    edits,               \* the PATCH /:id/schedule requests, in arrival order
    driver               \* the server process: ENABLE_CRON_SCHEDULER, whether
                         \* it is alive, the tick errors its cron callback logged

classifierVars == <<channels, minIntervalMinutes, nowMinutes, states, pc>>

tickVars == <<db, clock, ticks, calls, recorded, edits, driver>>

vars == <<channels, minIntervalMinutes, nowMinutes, states, pc,
          db, clock, ticks, calls, recorded, edits, driver>>

(***************************************************************************)
(* Strings.  A time of day is the string "HH:MM"; the model keeps it as    *)
(* the sequence of its characters, so that Array.prototype.sort() (which   *)
(* orders strings by code unit) and hhmmToMinutes (which parses) are       *)
(* computed and not assumed.                                               *)
(***************************************************************************)
CharOrder == <<"!", "0", "1", "2", "3", "4", "5", "6", "7", "8", "9", ":", "x">>

CharRanks ==
    [ c \in { CharOrder[i] : i \in 1..Len(CharOrder) } |->
        CHOOSE i \in 1..Len(CharOrder) : CharOrder[i] = c ]

CharRank(c) == CharRanks[c]

IsDigit(c) == c \in {"0", "1", "2", "3", "4", "5", "6", "7", "8", "9"}

DigitVal(c) == CharRank(c) - CharRank("0")

DigitChar(d) == CharOrder[CharRank("0") + d]

RECURSIVE StrLess(_, _)
StrLess(a, b) ==
    IF Len(b) = 0 THEN FALSE
    ELSE IF Len(a) = 0 THEN TRUE
    ELSE IF a[1] = b[1] THEN StrLess(Tail(a), Tail(b))
    ELSE CharRank(a[1]) < CharRank(b[1])

RECURSIVE InsertSorted(_, _)
InsertSorted(s, sorted) ==
    IF Len(sorted) = 0 THEN <<s>>
    ELSE IF StrLess(s, sorted[1]) THEN <<s>> \o sorted
    ELSE <<sorted[1]>> \o InsertSorted(s, Tail(sorted))

RECURSIVE SortStrings(_)
SortStrings(strs) ==
    IF Len(strs) = 0 THEN <<>>
    ELSE InsertSorted(strs[1], SortStrings(Tail(strs)))

MinutesPerDay == 1440

\* numbers are modelled by integers; the two values of a number argument that
\* are not numbers are modelled by NaN and Undefined
NaN == -1

IsNaN(x) == x = NaN

Undefined == -2

\* "HH:MM" -> minutes since midnight, NaN when the string is not a time of day
hhmmToMinutes(time) ==
    IF /\ Len(time) = 5
       /\ IsDigit(time[1]) /\ IsDigit(time[2])
       /\ time[3] = ":"
       /\ IsDigit(time[4]) /\ IsDigit(time[5])
       /\ DigitVal(time[1]) * 10 + DigitVal(time[2]) <= 23
       /\ DigitVal(time[4]) * 10 + DigitVal(time[5]) <= 59
    THEN (DigitVal(time[1]) * 10 + DigitVal(time[2])) * 60
         + DigitVal(time[4]) * 10 + DigitVal(time[5])
    ELSE NaN

\* minutes since midnight -> "HH:MM"
minutesToHHMM(m) ==
    << DigitChar((m \div 60) \div 10), DigitChar((m \div 60) % 10), ":",
       DigitChar((m % 60) \div 10), DigitChar((m % 60) % 10) >>

(***************************************************************************)
(* Slot State Classifier                                                   *)
(***************************************************************************)
NoTimeSlot == <<>>

Max2(a, b) == IF a >= b THEN a ELSE b

Min2(a, b) == IF a <= b THEN a ELSE b

MinOf(S) == CHOOSE x \in S : \A y \in S : x <= y

\* the default parameter: minIntervalMinutes: number = 11
minIntervalOrDefault(m) == IF m = Undefined THEN 11 ELSE m

ValidInterval_NoFallback(m) == Max2(1, Min2(60, m))

\* Math.max(1, Math.min(60, minIntervalMinutes || 11))
ValidInterval(m) == Max2(1, Min2(60, IF m = 0 \/ IsNaN(m) THEN 11 ELSE m))

RECURSIVE FilterTimes_IgnoreEnabled(_)
FilterTimes_IgnoreEnabled(schedules) ==
    IF Len(schedules) = 0 THEN <<>>
    ELSE IF Len(schedules[1].time) > 0
         THEN <<schedules[1].time>> \o FilterTimes_IgnoreEnabled(Tail(schedules))
         ELSE FilterTimes_IgnoreEnabled(Tail(schedules))

\* .filter(s => s.enabled && s.time).map(s => s.time)
RECURSIVE FilterTimes(_)
FilterTimes(schedules) ==
    IF Len(schedules) = 0 THEN <<>>
    ELSE IF schedules[1].enabled /\ Len(schedules[1].time) > 0
         THEN <<schedules[1].time>> \o FilterTimes(Tail(schedules))
         ELSE FilterTimes(Tail(schedules))

EnabledTimes(channel) == SortStrings(FilterTimes(channel.autoSendSchedules))

isActive_OffByOne(slotMinutes, now, validInterval) ==
    LET endMinutes == slotMinutes + validInterval IN
    IF endMinutes < MinutesPerDay
    THEN slotMinutes <= now /\ now <= endMinutes
    ELSE now >= slotMinutes \/ now <= endMinutes % MinutesPerDay

isActive(slotMinutes, now, validInterval) ==
    LET endMinutes == slotMinutes + validInterval IN
    IF endMinutes < MinutesPerDay
    THEN slotMinutes <= now /\ now < endMinutes
    ELSE now >= slotMinutes \/ now < endMinutes % MinutesPerDay

isPast(slotMinutes, now, validInterval) ==
    LET endMinutes == slotMinutes + validInterval IN
    IF endMinutes < MinutesPerDay
    THEN now >= endMinutes
    ELSE now >= endMinutes % MinutesPerDay /\ now < slotMinutes

\* The first loop of getChannelState: the indexes of the active times
ActiveIndexes(times, now, validInterval) ==
    { i \in 1..Len(times) :
        /\ ~IsNaN(hhmmToMinutes(times[i]))
        /\ isActive(hhmmToMinutes(times[i]), now, validInterval) }

\* The second loop of getChannelState: the indexes of the times after now
LaterIndexes(times, now) ==
    { i \in 1..Len(times) :
        /\ ~IsNaN(hhmmToMinutes(times[i]))
        /\ hhmmToMinutes(times[i]) > now }

FirstActive_Last(times, act) == times[CHOOSE i \in act : \A j \in act : j <= i]

\* for (const time of times) { ... if (isActive) return ... }: the first hit
FirstActive(times, act) == times[MinOf(act)]

getChannelState_FallbackLast(channel, now, minInterval) ==
    IF ~channel.autoSendEnabled \/ Len(channel.autoSendSchedules) = 0
    THEN [state |-> "default", timeSlot |-> NoTimeSlot]
    ELSE LET times == EnabledTimes(channel) IN
         IF Len(times) = 0
         THEN [state |-> "default", timeSlot |-> NoTimeSlot]
         ELSE LET validInterval == ValidInterval(minInterval)
                  act == ActiveIndexes(times, now, validInterval)
                  later == LaterIndexes(times, now)
              IN IF act # {}
                 THEN [state |-> "current", timeSlot |-> FirstActive(times, act)]
                 ELSE IF later # {}
                 THEN [state |-> "next", timeSlot |-> times[MinOf(later)]]
                 ELSE [state |-> "next", timeSlot |-> times[Len(times)]]

\* lines 15-72: the state of one channel and the time that decides it
getChannelState(channel, now, minInterval) ==
    IF ~channel.autoSendEnabled \/ Len(channel.autoSendSchedules) = 0
    THEN [state |-> "default", timeSlot |-> NoTimeSlot]
    ELSE LET times == EnabledTimes(channel) IN
         IF Len(times) = 0
         THEN [state |-> "default", timeSlot |-> NoTimeSlot]
         ELSE LET validInterval == ValidInterval(minInterval)
                  act == ActiveIndexes(times, now, validInterval)
                  later == LaterIndexes(times, now)
              IN IF act # {}
                 THEN [state |-> "current", timeSlot |-> FirstActive(times, act)]
                 ELSE IF later # {}
                 THEN [state |-> "next", timeSlot |-> times[MinOf(later)]]
                 ELSE [state |-> "next", timeSlot |-> times[1]]

Pick(channel, timeSlot, minutes) ==
    << [channelId |-> channel.id, timeSlot |-> timeSlot, minutes |-> minutes] >>

RECURSIVE FindCurrent_TiesToLast(_, _, _, _, _)
FindCurrent_TiesToLast(chs, i, now, minInterval, cur) ==
    IF i > Len(chs) THEN cur
    ELSE LET r == getChannelState(chs[i], now, minInterval)
             minutes == hhmmToMinutes(r.timeSlot)
         IN FindCurrent_TiesToLast(chs, i + 1, now, minInterval,
              IF /\ r.state = "current" /\ Len(r.timeSlot) > 0
                 /\ ~IsNaN(minutes)
                 /\ (cur = <<>> \/ minutes >= cur[1].minutes)
              THEN Pick(chs[i], r.timeSlot, minutes)
              ELSE cur)

\* lines 91-102: the current channel, <<>> for null
RECURSIVE FindCurrent(_, _, _, _, _)
FindCurrent(chs, i, now, minInterval, cur) ==
    IF i > Len(chs) THEN cur
    ELSE LET r == getChannelState(chs[i], now, minInterval)
             minutes == hhmmToMinutes(r.timeSlot)
         IN FindCurrent(chs, i + 1, now, minInterval,
              IF /\ r.state = "current" /\ Len(r.timeSlot) > 0
                 /\ ~IsNaN(minutes)
                 /\ (cur = <<>> \/ minutes > cur[1].minutes)
              THEN Pick(chs[i], r.timeSlot, minutes)
              ELSE cur)

IsCurrentChannel(channel, cur) == cur # <<>> /\ channel.id = cur[1].channelId

RECURSIVE FindNext_NotNormalized(_, _, _, _, _, _)
FindNext_NotNormalized(chs, i, now, minInterval, cur, nxt) ==
    IF i > Len(chs) THEN nxt
    ELSE IF IsCurrentChannel(chs[i], cur)
    THEN FindNext_NotNormalized(chs, i + 1, now, minInterval, cur, nxt)
    ELSE LET r == getChannelState(chs[i], now, minInterval)
             minutes == hhmmToMinutes(r.timeSlot)
         IN FindNext_NotNormalized(chs, i + 1, now, minInterval, cur,
              IF /\ r.state = "next" /\ Len(r.timeSlot) > 0
                 /\ ~IsNaN(minutes)
                 /\ (nxt = <<>> \/ minutes < nxt[1].minutes)
              THEN Pick(chs[i], r.timeSlot, minutes)
              ELSE nxt)

\* lines 105-123: the next channel, the current one skipped
RECURSIVE FindNext(_, _, _, _, _, _)
FindNext(chs, i, now, minInterval, cur, nxt) ==
    IF i > Len(chs) THEN nxt
    ELSE IF IsCurrentChannel(chs[i], cur)
    THEN FindNext(chs, i + 1, now, minInterval, cur, nxt)
    ELSE LET r == getChannelState(chs[i], now, minInterval)
             minutes == hhmmToMinutes(r.timeSlot)
             normalizedMinutes ==
                 IF minutes <= now THEN minutes + MinutesPerDay ELSE minutes
         IN FindNext(chs, i + 1, now, minInterval, cur,
              IF /\ r.state = "next" /\ Len(r.timeSlot) > 0
                 /\ ~IsNaN(minutes)
                 /\ (nxt = <<>> \/ normalizedMinutes < nxt[1].minutes)
              THEN Pick(chs[i], r.timeSlot, normalizedMinutes)
              ELSE nxt)

RECURSIVE PastOfChannel_FirstPast(_, _, _, _, _, _)
PastOfChannel_FirstPast(channel, times, j, now, validInterval, prev) ==
    IF j > Len(times) THEN prev
    ELSE LET slotMinutes == hhmmToMinutes(times[j]) IN
         PastOfChannel_FirstPast(channel, times, j + 1, now, validInterval,
              IF /\ ~IsNaN(slotMinutes)
                 /\ isPast(slotMinutes, now, validInterval)
                 /\ prev = <<>>
              THEN Pick(channel, times[j], slotMinutes)
              ELSE prev)

\* lines 142-162: the inner loop over one channel's times
RECURSIVE PastOfChannel(_, _, _, _, _, _)
PastOfChannel(channel, times, j, now, validInterval, prev) ==
    IF j > Len(times) THEN prev
    ELSE LET slotMinutes == hhmmToMinutes(times[j]) IN
         PastOfChannel(channel, times, j + 1, now, validInterval,
              IF /\ ~IsNaN(slotMinutes)
                 /\ isPast(slotMinutes, now, validInterval)
                 /\ (prev = <<>> \/ slotMinutes > prev[1].minutes)
              THEN Pick(channel, times[j], slotMinutes)
              ELSE prev)

\* lines 129-163: the latest slot that ended today
RECURSIVE FindPreviousToday(_, _, _, _, _, _)
FindPreviousToday(chs, i, now, validInterval, cur, prev) ==
    IF i > Len(chs) THEN prev
    ELSE IF IsCurrentChannel(chs[i], cur) \/ ~chs[i].autoSendEnabled
    THEN FindPreviousToday(chs, i + 1, now, validInterval, cur, prev)
    ELSE FindPreviousToday(chs, i + 1, now, validInterval, cur,
             PastOfChannel(chs[i], EnabledTimes(chs[i]), 1, now, validInterval, prev))

RECURSIVE FindPreviousYesterday_FirstTime(_, _, _, _)
FindPreviousYesterday_FirstTime(chs, i, cur, prev) ==
    IF i > Len(chs) THEN prev
    ELSE IF IsCurrentChannel(chs[i], cur) \/ ~chs[i].autoSendEnabled
    THEN FindPreviousYesterday_FirstTime(chs, i + 1, cur, prev)
    ELSE LET times == EnabledTimes(chs[i])
             firstTime == times[1]
             firstMinutes == hhmmToMinutes(firstTime)
         IN FindPreviousYesterday_FirstTime(chs, i + 1, cur,
              IF /\ Len(times) > 0
                 /\ ~IsNaN(firstMinutes)
                 /\ (prev = <<>> \/ firstMinutes > prev[1].minutes)
              THEN Pick(chs[i], firstTime, firstMinutes)
              ELSE prev)

\* lines 166-188: nothing ended today, the latest slot of yesterday
RECURSIVE FindPreviousYesterday(_, _, _, _)
FindPreviousYesterday(chs, i, cur, prev) ==
    IF i > Len(chs) THEN prev
    ELSE IF IsCurrentChannel(chs[i], cur) \/ ~chs[i].autoSendEnabled
    THEN FindPreviousYesterday(chs, i + 1, cur, prev)
    ELSE LET times == EnabledTimes(chs[i])
             lastTime == times[Len(times)]
             lastMinutes == hhmmToMinutes(lastTime)
         IN FindPreviousYesterday(chs, i + 1, cur,
              IF /\ Len(times) > 0
                 /\ ~IsNaN(lastMinutes)
                 /\ (prev = <<>> \/ lastMinutes > prev[1].minutes)
              THEN Pick(chs[i], lastTime, lastMinutes)
              ELSE prev)

FindPrevious(chs, now, minInterval, cur) ==
    LET today == FindPreviousToday(chs, 1, now, ValidInterval(minInterval), cur, <<>>)
    IN IF today # <<>> THEN today ELSE FindPreviousYesterday(chs, 1, cur, <<>>)

FinalState_NextForAll(channel, cur, nxt, prev) ==
    IF cur # <<>> /\ channel.id = cur[1].channelId
    THEN [channelId |-> channel.id, state |-> "current", timeSlot |-> cur[1].timeSlot]
    ELSE IF nxt # <<>>
    THEN [channelId |-> channel.id, state |-> "next", timeSlot |-> nxt[1].timeSlot]
    ELSE IF prev # <<>> /\ channel.id = prev[1].channelId
    THEN [channelId |-> channel.id, state |-> "previous", timeSlot |-> prev[1].timeSlot]
    ELSE [channelId |-> channel.id, state |-> "default", timeSlot |-> NoTimeSlot]

FinalState_NoIdCheck(channel, cur, nxt, prev) ==
    IF cur # <<>>
    THEN [channelId |-> channel.id, state |-> "current", timeSlot |-> cur[1].timeSlot]
    ELSE [channelId |-> channel.id, state |-> "default", timeSlot |-> NoTimeSlot]

FinalState_NoDefault(channel, cur, nxt, prev) ==
    IF cur # <<>> /\ channel.id = cur[1].channelId
    THEN [channelId |-> channel.id, state |-> "current", timeSlot |-> cur[1].timeSlot]
    ELSE IF nxt # <<>> /\ channel.id = nxt[1].channelId
    THEN [channelId |-> channel.id, state |-> "next", timeSlot |-> nxt[1].timeSlot]
    ELSE IF prev # <<>>
    THEN [channelId |-> channel.id, state |-> "previous", timeSlot |-> prev[1].timeSlot]
    ELSE [channelId |-> channel.id, state |-> "default", timeSlot |-> NoTimeSlot]

FinalState_PreviousFirst(channel, cur, nxt, prev) ==
    IF cur # <<>> /\ channel.id = cur[1].channelId
    THEN [channelId |-> channel.id, state |-> "current", timeSlot |-> cur[1].timeSlot]
    ELSE IF prev # <<>> /\ channel.id = prev[1].channelId
    THEN [channelId |-> channel.id, state |-> "previous", timeSlot |-> prev[1].timeSlot]
    ELSE IF nxt # <<>> /\ channel.id = nxt[1].channelId
    THEN [channelId |-> channel.id, state |-> "next", timeSlot |-> nxt[1].timeSlot]
    ELSE [channelId |-> channel.id, state |-> "default", timeSlot |-> NoTimeSlot]

\* lines 191-216: the state written into the map for one channel
FinalState(channel, cur, nxt, prev) ==
    IF cur # <<>> /\ channel.id = cur[1].channelId
    THEN [channelId |-> channel.id, state |-> "current", timeSlot |-> cur[1].timeSlot]
    ELSE IF nxt # <<>> /\ channel.id = nxt[1].channelId
    THEN [channelId |-> channel.id, state |-> "next", timeSlot |-> nxt[1].timeSlot]
    ELSE IF prev # <<>> /\ channel.id = prev[1].channelId
    THEN [channelId |-> channel.id, state |-> "previous", timeSlot |-> prev[1].timeSlot]
    ELSE [channelId |-> channel.id, state |-> "default", timeSlot |-> NoTimeSlot]

ChannelIdsOf(chs) == { chs[i].id : i \in 1..Len(chs) }

\* states.set(channel.id, ...) in input order: the last channel of an id wins
calculateChannelStates(chs, minIntervalArg, now) ==
    LET minInterval == minIntervalOrDefault(minIntervalArg)
        cur == FindCurrent(chs, 1, now, minInterval, <<>>)
        nxt == FindNext(chs, 1, now, minInterval, cur, <<>>)
        prev == FindPrevious(chs, now, minInterval, cur)
    IN [ id \in ChannelIdsOf(chs) |->
           LET last == CHOOSE i \in 1..Len(chs) :
                          /\ chs[i].id = id
                          /\ \A j \in 1..Len(chs) : chs[j].id = id => j <= i
           IN FinalState(chs[last], cur, nxt, prev) ]

(***************************************************************************)
(* Specification SpecClassify: calculateChannelStates applied to a fleet,  *)
(* a window and a minute of day drawn from bounded sets.                   *)
(***************************************************************************)
MaxChannels == 2

MaxSlots == 2

ChannelNames == <<"A", "B", "C", "D">>

Weekdays == {1, 2, 3, 4, 5}

\* ChannelAutoSendSchedule (src/src/domain/channel.ts)
Schedule(id, enabled, time) ==
    [id |-> id, enabled |-> enabled, daysOfWeek |-> Weekdays, time |-> time,
     promptsPerRun |-> 1, lastRunAt |-> <<>>]

FleetNows == {3, 485, 1380}

FleetWindows == {11}

\* the (enabled, time) pairs of the fleets' slots, latest time first
FleetSlots ==
    << <<TRUE, minutesToHHMM(1435)>>, <<TRUE, minutesToHHMM(1200)>>,
       <<TRUE, minutesToHHMM(480)>>, <<TRUE, minutesToHHMM(2)>> >>

\* the same with a disabled slot, for the channels of one slot
FlagSlots == FleetSlots \o << <<FALSE, minutesToHHMM(480)>> >>

\* the selections of up to n of the slots, in the order of slots (not sorted)
Selections(n, slots) ==
    UNION { { sel \in [1..k -> 1..Len(slots)] :
                \A a \in 1..k, b \in 1..k : a < b => sel[a] < sel[b] } : k \in 0..n }

\* the schedule lists of channel number c: ids are distinct within the fleet
SchedulesOf(c, n, slots) ==
    { [ k \in 1..Len(sel) |->
          Schedule(<<c, k>>, slots[sel[k]][1], slots[sel[k]][2]) ] :
        sel \in Selections(n, slots) }

ChannelsOf(c, automation, schedules) ==
    { [id |-> ChannelNames[c], autoSendEnabled |-> a, autoSendSchedules |-> ss] :
        a \in automation, ss \in schedules }

EnabledChannels(c) == ChannelsOf(c, {TRUE}, SchedulesOf(c, MaxSlots, FleetSlots))

FlaggedChannels(c) == ChannelsOf(c, BOOLEAN, SchedulesOf(c, 1, FlagSlots) \ {<<>>})

\* the fleets of n channels, channel number c drawn from chans[c]
RECURSIVE FleetsOf(_, _)
FleetsOf(n, chans) ==
    IF n = 0 THEN {<<>>}
    ELSE { Append(f, ch) : f \in FleetsOf(n - 1, chans), ch \in chans[n] }

\* fleets of automation-enabled channels with several slots each
InitFleet ==
    /\ channels \in UNION { FleetsOf(n, [c \in 1..n |-> EnabledChannels(c)]) :
                                n \in 1..MaxChannels }
    /\ minIntervalMinutes \in FleetWindows
    /\ nowMinutes \in FleetNows

\* fleets of channels with one slot each, automation on or off
InitFlags ==
    /\ channels \in UNION { FleetsOf(n, [c \in 1..n |-> FlaggedChannels(c)]) :
                                n \in 1..MaxChannels }
    /\ minIntervalMinutes \in FleetWindows
    /\ nowMinutes \in FleetNows

ActivityTimes == {0, 1, 480, 1379, 1380, 1381, 1430, 1439}

ActivityWindows == 1..60

OneSlotFleet(t) ==
    << [id |-> ChannelNames[1], autoSendEnabled |-> TRUE,
        autoSendSchedules |-> << Schedule(<<1, 1>>, TRUE, minutesToHHMM(t)) >>] >>

\* one slot, every window, the minutes around the two ends of its window
InitActivity ==
    \E t \in ActivityTimes, w \in ActivityWindows :
        /\ channels = OneSlotFleet(t)
        /\ minIntervalMinutes = w
        /\ nowMinutes \in { (t + d + MinutesPerDay) % MinutesPerDay :
                              d \in {0 - 1, 0, 1, w - 1, w, w + 1} }
                          \cup {0, 720, MinutesPerDay - 1}

\* the slot 23:50 with window 20 at every minute of the day
InitWrap ==
    /\ channels = OneSlotFleet(1430)
    /\ minIntervalMinutes = 20
    /\ nowMinutes \in 0..(MinutesPerDay - 1)

PairTimes == {2, 480, 485, 1200, 1435}

\* one channel with two slots, the first one enabled or not, a short and the
\* longest window
InitPair ==
    \E t1 \in PairTimes, t2 \in PairTimes, e1 \in BOOLEAN :
        /\ channels = << [id |-> ChannelNames[1], autoSendEnabled |-> TRUE,
                          autoSendSchedules |->
                              << Schedule(<<1, 1>>, e1, minutesToHHMM(t1)),
                                 Schedule(<<1, 2>>, TRUE, minutesToHHMM(t2)) >>] >>
        /\ minIntervalMinutes \in {11, 60}
        /\ nowMinutes \in {3, 485, 487, 1380}

\* two strings that are not times of day: one sorts before every time, one after
Bang == <<"!", "!", ":", "!", "!">>

Exes == <<"x", "x", ":", "x", "x">>

\* the times of the slots of the channel below, in stored order (not sorted)
MixedTimes == <<Exes, minutesToHHMM(540), Bang>>

MixedSchedules ==
    { [ k \in 1..Len(sel) |-> Schedule(<<1, k>>, TRUE, MixedTimes[sel[k]]) ] :
        sel \in { sel \in UNION { [1..k -> 1..Len(MixedTimes)] : k \in 1..Len(MixedTimes) } :
                    \A a \in DOMAIN sel, b \in DOMAIN sel : a < b => sel[a] < sel[b] } }

\* a channel whose slots are 09:00 and strings that are not times, alone or
\* followed by a channel with the slot 08:30
InitMalformed ==
    \E ss \in MixedSchedules :
        /\ channels \in
              { << [id |-> ChannelNames[1], autoSendEnabled |-> TRUE,
                    autoSendSchedules |-> ss] >> \o rest :
                  rest \in { <<>>,
                             << [id |-> ChannelNames[2], autoSendEnabled |-> TRUE,
                                 autoSendSchedules |->
                                   << Schedule(<<2, 1>>, TRUE, minutesToHHMM(510)) >>] >> } }
        /\ minIntervalMinutes = 11
        /\ nowMinutes \in {480, 545, 600}

\* the values of the window argument: absent, not a number, negative, zero,
\* the ends of the range and beyond it
WindowInputs == {Undefined, NaN, 0 - 5, 0, 1, 11, 60, 61, 100}

\* the slots 08:00 and 20:00 on two channels, every window argument, the
\* minutes around the ends of the windows of 08:00
InitWindow ==
    /\ channels =
          << [id |-> ChannelNames[1], autoSendEnabled |-> TRUE,
              autoSendSchedules |-> << Schedule(<<1, 1>>, TRUE, minutesToHHMM(480)) >>],
             [id |-> ChannelNames[2], autoSendEnabled |-> TRUE,
              autoSendSchedules |-> << Schedule(<<2, 1>>, TRUE, minutesToHHMM(1200)) >>] >>
    /\ minIntervalMinutes \in WindowInputs
    /\ nowMinutes \in { 480 + d : d \in {0 - 1, 0, 1, 10, 11, 12, 59, 60, 61, 99, 100, 101} }

\* three channels: the first two have an active slot just after midnight, the
\* second one has a later slot as well, the third one has a slot in the evening
InitTrio ==
    /\ channels =
          << [id |-> "A", autoSendEnabled |-> TRUE,
              autoSendSchedules |-> << Schedule(<<1, 1>>, TRUE, minutesToHHMM(1435)) >>],
             [id |-> "B", autoSendEnabled |-> TRUE,
              autoSendSchedules |-> << Schedule(<<2, 1>>, TRUE, minutesToHHMM(2)),
                                       Schedule(<<2, 2>>, TRUE, minutesToHHMM(480)) >>],
             [id |-> "C", autoSendEnabled |-> TRUE,
              autoSendSchedules |-> << Schedule(<<3, 1>>, TRUE, minutesToHHMM(1200)) >>] >>
    /\ minIntervalMinutes \in FleetWindows
    /\ nowMinutes \in FleetNows

InitClassify ==
    /\ \/ InitFleet \/ InitFlags \/ InitActivity \/ InitWrap \/ InitPair
       \/ InitMalformed \/ InitWindow \/ InitTrio
    /\ states = <<>>
    /\ pc = "input"
    /\ db = <<>>
    /\ clock = [date |-> 0, minute |-> 0]
    /\ ticks = <<>>
    /\ calls = {}
    /\ recorded = {}
    /\ edits = <<>>
    /\ driver = [env |-> "unset", alive |-> TRUE, logged |-> {}]

RECURSIVE InsertByTime(_, _)
InsertByTime(schedule, sorted) ==
    IF Len(sorted) = 0 THEN <<schedule>>
    ELSE IF StrLess(schedule.time, sorted[1].time) THEN <<schedule>> \o sorted
    ELSE <<sorted[1]>> \o InsertByTime(schedule, Tail(sorted))

RECURSIVE SortedByTime(_)
SortedByTime(schedules) ==
    IF Len(schedules) = 0 THEN <<>>
    ELSE InsertByTime(schedules[1], SortedByTime(Tail(schedules)))

Classify_SortsInPlace ==
    /\ pc = "input"
    /\ states' = <<calculateChannelStates(channels, minIntervalMinutes, nowMinutes)>>
    /\ pc' = "done"
    /\ channels' =
          [ i \in DOMAIN channels |->
              [channels[i] EXCEPT
                 !.autoSendSchedules = SortedByTime(channels[i].autoSendSchedules)] ]
    /\ UNCHANGED <<minIntervalMinutes, nowMinutes>>
    /\ UNCHANGED tickVars

\* calculateChannelStates(channels, minIntervalMinutes) called at nowMinutes
Classify ==
    /\ pc = "input"
    /\ states' = <<calculateChannelStates(channels, minIntervalMinutes, nowMinutes)>>
    /\ pc' = "done"
    /\ UNCHANGED <<channels, minIntervalMinutes, nowMinutes>>
    /\ UNCHANGED tickVars

\* the status view asks again: one more call on the same fleet
ClassifyAgain ==
    /\ pc # "input"
    /\ states' = <<calculateChannelStates(channels, minIntervalMinutes, nowMinutes)>>
    /\ pc' = "again"
    /\ UNCHANGED <<channels, minIntervalMinutes, nowMinutes>>
    /\ UNCHANGED tickVars

NextClassify == Classify \/ ClassifyAgain

SpecClassify == InitClassify /\ [][NextClassify]_vars

(***************************************************************************)
(* Properties of the Slot State Classifier (checked under SpecClassify)    *)
(***************************************************************************)
Result == states[1]

Classified == pc = "done"

EnabledSlotMinutes(channel) ==
    { hhmmToMinutes(channel.autoSendSchedules[k].time) :
        k \in { k \in 1..Len(channel.autoSendSchedules) :
                  /\ channel.autoSendSchedules[k].enabled
                  /\ ~IsNaN(hhmmToMinutes(channel.autoSendSchedules[k].time)) } }

\* the window [T, T+W) taken modulo one day contains now
InWindow(T, now, W) == (now - T + MinutesPerDay) % MinutesPerDay < W

ActiveSlotMinutes(channel) ==
    { T \in EnabledSlotMinutes(channel) :
        InWindow(T, nowMinutes,
                 ValidInterval(minIntervalOrDefault(minIntervalMinutes))) }

PerChannel(channel) ==
    getChannelState(channel, nowMinutes, minIntervalOrDefault(minIntervalMinutes))

Fleet == { channels[i] : i \in 1..Len(channels) }

\* C6: the map returned by calculateChannelStates holds at most one channel
\* whose state is "current".
C6_AtMostOneCurrent ==
    Classified =>
        Cardinality({ id \in DOMAIN Result : Result[id].state = "current" }) <= 1

\* C6 witness: two channels both have an active slot and one of them is reported.
C6_Witness ==
    /\ Classified
    /\ Cardinality({ ch \in Fleet : PerChannel(ch).state = "current" }) >= 2
    /\ Cardinality({ id \in DOMAIN Result : Result[id].state = "current" }) = 1

\* C7: an enabled slot at T is treated as active iff (now - T) mod 1440 < W:
\* a channel is classified "current" exactly when one of its enabled slots
\* satisfies that test, and the slot 23:50 with window 20 is active exactly
\* for now in 23:50..23:59 and 00:00..00:09.
C7_ActiveIffInWindow ==
    Classified =>
        /\ \A ch \in Fleet :
              ch.autoSendEnabled =>
                 (PerChannel(ch).state = "current" <=> ActiveSlotMinutes(ch) # {})
        /\ Len(channels) = 1 /\ channels[1].autoSendEnabled =>
              (Result[channels[1].id].state = "current"
                  <=> ActiveSlotMinutes(channels[1]) # {})
        /\ channels = OneSlotFleet(1430) /\ minIntervalMinutes = 20 =>
              (Result[channels[1].id].state = "current"
                  <=> nowMinutes \in (1430..1439) \cup (0..9))

\* C7 witness: a window that crosses midnight, seen after midnight.
C7_Witness ==
    /\ Classified
    /\ channels = OneSlotFleet(1430) /\ minIntervalMinutes = 20 /\ nowMinutes = 9
    /\ Result[channels[1].id].state = "current"

\* C8 as stated: with several enabled slots of one channel active at now, the
\* channel is "current" and its slot is the active slot of the largest time.
C8_LargestActiveWins ==
    Classified =>
        \A ch \in Fleet :
            ch.autoSendEnabled /\ Cardinality(ActiveSlotMinutes(ch)) >= 2 =>
               /\ PerChannel(ch).state = "current"
               /\ \A T \in ActiveSlotMinutes(ch) :
                     T <= hhmmToMinutes(PerChannel(ch).timeSlot)

\* C8 amended: with several enabled slots of one channel active at now, the
\* channel is "current" and its slot is the active slot of the smallest time
\* (the first active one in ascending order of the time strings); when the
\* channel is the one reported "current", that slot is the reported slot.
C8_SmallestActiveWins ==
    Classified =>
        \A ch \in Fleet :
            ch.autoSendEnabled /\ Cardinality(ActiveSlotMinutes(ch)) >= 2 =>
               /\ PerChannel(ch).state = "current"
               /\ hhmmToMinutes(PerChannel(ch).timeSlot) \in ActiveSlotMinutes(ch)
               /\ \A T \in ActiveSlotMinutes(ch) :
                     hhmmToMinutes(PerChannel(ch).timeSlot) <= T
               /\ Result[ch.id].state = "current" =>
                     Result[ch.id].timeSlot = PerChannel(ch).timeSlot

\* C8 witness: 23:55 and 00:02 are both active at 00:03 and 00:02 is reported.
C8_Witness ==
    /\ Classified
    /\ \E ch \in Fleet :
          /\ ch.autoSendEnabled
          /\ ActiveSlotMinutes(ch) = {2, 1435}
          /\ Result[ch.id].state = "current"
          /\ Result[ch.id].timeSlot = minutesToHHMM(2)

Scenario0800_2000 ==
    /\ Len(channels) = 1
    /\ channels[1].autoSendEnabled
    /\ Len(channels[1].autoSendSchedules) = 2
    /\ channels[1].autoSendSchedules[1].enabled
    /\ channels[1].autoSendSchedules[2].enabled
    /\ channels[1].autoSendSchedules[1].time = minutesToHHMM(480)
    /\ channels[1].autoSendSchedules[2].time = minutesToHHMM(1200)
    /\ minIntervalMinutes = 11
    /\ nowMinutes = 1380

Window == ValidInterval(minIntervalOrDefault(minIntervalMinutes))

MaxOf(S) == CHOOSE x \in S : \A y \in S : y <= x

\* the times of the slots that getChannelState considers
EnabledTimeStrings(channel) ==
    { channel.autoSendSchedules[k].time :
        k \in { k \in 1..Len(channel.autoSendSchedules) :
                  /\ channel.autoSendSchedules[k].enabled
                  /\ Len(channel.autoSendSchedules[k].time) > 0 } }

Eligible(channel) == channel.autoSendEnabled /\ EnabledTimeStrings(channel) # {}

WellFormed(channel) ==
    \A time \in EnabledTimeStrings(channel) : ~IsNaN(hhmmToMinutes(time))

WellFormedFleet == \A ch \in Fleet : WellFormed(ch)

\* the three picks of the call under check, <<>> for none
CurrentPick ==
    FindCurrent(channels, 1, nowMinutes, minIntervalOrDefault(minIntervalMinutes), <<>>)

NextPick ==
    FindNext(channels, 1, nowMinutes, minIntervalOrDefault(minIntervalMinutes),
             CurrentPick, <<>>)

PreviousPick ==
    FindPrevious(channels, nowMinutes, minIntervalOrDefault(minIntervalMinutes),
                 CurrentPick)

\* the positions of the channels other than the one reported "current"
NotCurrent ==
    { i \in 1..Len(channels) : Result[channels[i].id].state # "current" }

LaterSlotMinutes(channel) == { T \in EnabledSlotMinutes(channel) : T > nowMinutes }

\* the time rules (2) and (3) give a channel none of whose slots is active
NextSlotMinutes(channel) ==
    IF LaterSlotMinutes(channel) # {}
    THEN MinOf(LaterSlotMinutes(channel))
    ELSE MinOf(EnabledSlotMinutes(channel))

PerChannelStates == [ i \in 1..Len(channels) |-> PerChannel(channels[i]) ]

\* the positions of the channels whose per-channel state is s
PerChannelIn(s) == { i \in 1..Len(channels) : PerChannel(channels[i]).state = s }

RepresentativeMinutes(i) == hhmmToMinutes(PerChannel(channels[i]).timeSlot)

\* C12: when some channel's per-channel state is "current", the channel
\* reported "current" is one of them, is reported with its representative
\* slot, no other of them has a larger representative time, and of those with
\* the same time it is the earliest in the input order.
C12_GlobalCurrent ==
    Classified =>
        LET per == PerChannelStates
            cands == { i \in DOMAIN per : per[i].state = "current" }
            minutes == [ i \in cands |-> hhmmToMinutes(per[i].timeSlot) ]
        IN cands # {} =>
              \E i \in cands :
                  /\ Result[channels[i].id].state = "current"
                  /\ Result[channels[i].id].timeSlot = per[i].timeSlot
                  /\ \A j \in cands :
                        /\ minutes[j] <= minutes[i]
                        /\ minutes[j] = minutes[i] => i <= j

\* C12 witness: the first two channels are both "current" with the same
\* representative time and the first one is reported.
C12_Witness ==
    /\ Classified
    /\ Len(channels) >= 2
    /\ {1, 2} \subseteq PerChannelIn("current")
    /\ RepresentativeMinutes(1) = RepresentativeMinutes(2)
    /\ Result[channels[1].id].state = "current"
    /\ Result[channels[2].id].state # "current"

\* minutes until a slot at T fires
MinutesUntil(T) ==
    IF T > nowMinutes THEN T - nowMinutes ELSE T + MinutesPerDay - nowMinutes

\* the candidates of the global next pick
NextCandidates == PerChannelIn("next") \cap NotCurrent

\* C13: in a fleet of well-formed times, when some channel other than the one
\* reported "current" has the per-channel state "next", the channel reported
\* "next" is one of them, is reported with its per-channel slot, no other of
\* them fires sooner, and of those firing as soon it is the earliest in the
\* input order; when there is none, no channel is reported "next".
C13_GlobalNext ==
    Classified /\ WellFormedFleet =>
        LET per == PerChannelStates
            cands == { i \in NotCurrent : per[i].state = "next" }
            until == [ i \in cands |-> MinutesUntil(hhmmToMinutes(per[i].timeSlot)) ]
        IN IF cands = {}
           THEN \A id \in DOMAIN Result : Result[id].state # "next"
           ELSE \E i \in cands :
                   /\ Result[channels[i].id].state = "next"
                   /\ Result[channels[i].id].timeSlot = per[i].timeSlot
                   /\ \A j \in cands :
                         /\ until[i] <= until[j]
                         /\ until[i] = until[j] => i <= j

\* C13 witness: the first channel's next slot is tomorrow, the second one's is
\* later today at a larger time of day, and the second channel is reported.
C13_Witness ==
    /\ Classified /\ WellFormedFleet
    /\ {1, 2} \subseteq NextCandidates
    /\ RepresentativeMinutes(1) < nowMinutes
    /\ RepresentativeMinutes(2) > nowMinutes
    /\ Result[channels[2].id].state = "next"

\* the window of a slot at T has ended today
EndedToday(T) ==
    IF T + Window < MinutesPerDay
    THEN nowMinutes >= T + Window
    ELSE (T + Window) % MinutesPerDay <= nowMinutes /\ nowMinutes < T

\* <<i, T>>: channel i is not the one reported "current", has automation on
\* and an enabled slot at T whose window has ended today
EndedSlots ==
    { p \in UNION { { <<i, T>> : T \in EnabledSlotMinutes(channels[i]) } :
                      i \in NotCurrent } :
        channels[p[1]].autoSendEnabled /\ EndedToday(p[2]) }

\* the pick is the slot at T of channel i
PickIs(pick, i, T) ==
    /\ pick # <<>>
    /\ pick[1].channelId = channels[i].id
    /\ hhmmToMinutes(pick[1].timeSlot) = T
    /\ pick[1].timeSlot \in EnabledTimeStrings(channels[i])

PreviousPickIs(i, T) == PickIs(PreviousPick, i, T)

\* a channel reported "previous" is the previous pick, with the pick's slot,
\* and the channel of the previous pick is reported "previous" unless it is
\* the next pick
ReportedAsPrevious(pick) ==
    /\ \A id \in DOMAIN Result :
          Result[id].state = "previous" =>
              /\ pick # <<>>
              /\ pick[1].channelId = id
              /\ pick[1].timeSlot = Result[id].timeSlot
    /\ pick # <<>> =>
          \/ Result[pick[1].channelId].state = "next"
          \/ /\ Result[pick[1].channelId].state = "previous"
             /\ Result[pick[1].channelId].timeSlot = pick[1].timeSlot

\* C14: when some enabled slot of an automation-enabled channel other than the
\* one reported "current" has its window ended today, the previous pick is
\* such a slot and no such slot has a larger time; the pick is what a channel
\* reported "previous" shows.
C14_PreviousEndedToday ==
    Classified =>
        LET ended == EndedSlots
            pick == PreviousPick
        IN ended # {} =>
              /\ \E p \in ended :
                    /\ PickIs(pick, p[1], p[2])
                    /\ \A q \in ended : q[2] <= p[2]
              /\ ReportedAsPrevious(pick)

\* C14 witness: slots of two times have ended today (one of them wrapped past
\* midnight or not) and a channel is reported "previous".
C14_Witness ==
    /\ Classified
    /\ \E p \in EndedSlots, q \in EndedSlots : p[2] < q[2]
    /\ \E id \in DOMAIN Result : Result[id].state = "previous"

\* the positions of the eligible channels other than the one reported "current"
EligibleNotCurrent == { i \in NotCurrent : Eligible(channels[i]) }

LatestSlotMinutes(i) == MaxOf(EnabledSlotMinutes(channels[i]))

\* C15: in a fleet of well-formed times, when no slot of an eligible channel
\* other than the one reported "current" has ended today, the previous pick
\* is the latest enabled slot of such a channel and no such channel has a
\* later latest slot; when there is no such channel, there is no previous
\* pick and no channel is reported "previous".
C15_PreviousFallback ==
    Classified /\ WellFormedFleet /\ EndedSlots = {} =>
        LET pick == PreviousPick
            cands == EligibleNotCurrent
            latest == [ i \in cands |-> LatestSlotMinutes(i) ]
        IN IF cands = {}
           THEN /\ pick = <<>>
                /\ \A id \in DOMAIN Result : Result[id].state # "previous"
           ELSE /\ \E i \in cands :
                      /\ PickIs(pick, i, latest[i])
                      /\ \A j \in cands : latest[j] <= latest[i]
                /\ ReportedAsPrevious(pick)

\* C15 witness: nothing has ended today, a channel with two slots is the
\* previous pick by its later slot, and a channel is reported "previous".
C15_Witness ==
    /\ Classified /\ WellFormedFleet /\ EndedSlots = {}
    /\ \E i \in EligibleNotCurrent :
          /\ Cardinality(EnabledSlotMinutes(channels[i])) >= 2
          /\ PreviousPickIs(i, LatestSlotMinutes(i))
          /\ Result[channels[i].id].state = "previous"

\* the channels of the three picks
PickedIds ==
    { pick[1].channelId : pick \in {CurrentPick, NextPick, PreviousPick} \ {<<>>} }

\* C16: the result has exactly one entry for every channel id of the input,
\* the entry of an id names that id, and a channel that is none of the three
\* picks is reported "default" without a slot.
C16_OneEntryEachRestDefault ==
    Classified =>
        LET picked == PickedIds IN
        /\ DOMAIN Result = { channels[i].id : i \in 1..Len(channels) }
        /\ \A id \in DOMAIN Result :
              /\ Result[id].channelId = id
              /\ id \notin picked =>
                    /\ Result[id].state = "default"
                    /\ Result[id].timeSlot = NoTimeSlot

\* C16 witness: of two channels one is a pick and the other is reported
\* "default" although a previous pick exists.
C16_Witness ==
    /\ Classified
    /\ Len(channels) = 2
    /\ PreviousPick # <<>>
    /\ \E id \in DOMAIN Result :
          id \notin PickedIds /\ Result[id].state = "default"

\* C17: a channel with automation off or without an enabled slot has the
\* per-channel state "default", is reported "default" and is none of the
\* three picks; the slot reported for a channel is the time of one of its
\* enabled slots.
C17_Eligibility ==
    Classified =>
        LET picked == PickedIds IN
        /\ \A ch \in Fleet :
              ~Eligible(ch) =>
                 /\ PerChannel(ch).state = "default"
                 /\ Result[ch.id].state = "default"
                 /\ Result[ch.id].timeSlot = NoTimeSlot
                 /\ ch.id \notin picked
        /\ \A ch \in Fleet :
              Result[ch.id].timeSlot # NoTimeSlot =>
                 Result[ch.id].timeSlot \in EnabledTimeStrings(ch)

\* C17 witness: a channel with automation off whose enabled slot is active at
\* now, and a channel with automation on whose only slot is disabled and would
\* be active at now, are both reported "default".
C17_Witness ==
    /\ Classified
    /\ \E ch \in Fleet :
          /\ ~ch.autoSendEnabled
          /\ \E T \in EnabledSlotMinutes(ch) : InWindow(T, nowMinutes, Window)
          /\ Result[ch.id].state = "default"
    /\ \E ch \in Fleet :
          /\ ch.autoSendEnabled
          /\ Len(ch.autoSendSchedules) = 1
          /\ ~ch.autoSendSchedules[1].enabled
          /\ InWindow(hhmmToMinutes(ch.autoSendSchedules[1].time), nowMinutes, Window)
          /\ Result[ch.id].state = "default"

\* a channel without its enabled slots whose time is not a time of day
RECURSIVE WellFormedSchedules(_)
WellFormedSchedules(schedules) ==
    IF Len(schedules) = 0 THEN <<>>
    ELSE IF /\ schedules[1].enabled /\ Len(schedules[1].time) > 0
            /\ IsNaN(hhmmToMinutes(schedules[1].time))
         THEN WellFormedSchedules(Tail(schedules))
         ELSE <<schedules[1]>> \o WellFormedSchedules(Tail(schedules))

WithoutMalformed(channel) ==
    [channel EXCEPT !.autoSendSchedules = WellFormedSchedules(channel.autoSendSchedules)]

\* C18 as stated: when every channel that has a malformed enabled slot also
\* has a well-formed one, each channel's per-channel state and the whole
\* result are those of the fleet without the malformed slots.
C18_MalformedIgnored ==
    Classified /\ (\A ch \in Fleet : ~WellFormed(ch) => EnabledSlotMinutes(ch) # {}) =>
        /\ \A ch \in Fleet :
              LET r == PerChannel(ch)
                  clean == PerChannel(WithoutMalformed(ch))
              IN r.state = clean.state /\ r.timeSlot = clean.timeSlot
        /\ Result = calculateChannelStates(
                        [ i \in DOMAIN channels |-> WithoutMalformed(channels[i]) ],
                        minIntervalMinutes, nowMinutes)

\* the window the claim gives for a window argument
ClampedWindow(m) ==
    IF m = Undefined \/ IsNaN(m) \/ m = 0 THEN 11
    ELSE IF m > 60 THEN 60
    ELSE IF m < 1 THEN 1
    ELSE m

\* the window of a slot at T, W minutes long, has ended today
EndedTodayWithin(T, W) ==
    IF T + W < MinutesPerDay
    THEN nowMinutes >= T + W
    ELSE (T + W) % MinutesPerDay <= nowMinutes /\ nowMinutes < T

\* C19: the window in use is a number from 1 to 60: 11 for an absent, zero or
\* not-a-number argument, 60 for an argument above 60, 1 for a negative
\* argument, the argument itself otherwise; and that one window decides both
\* which channels are "current" (a slot at T is active iff now lies in the
\* W minutes from T) and which slot is the previous pick that ended today.
C19_WindowClamped ==
    Classified =>
        LET W == ClampedWindow(minIntervalMinutes)
            pick == PreviousPick
            ended == { p \in UNION { { <<i, T>> : T \in EnabledSlotMinutes(channels[i]) } :
                                       i \in NotCurrent } :
                         channels[p[1]].autoSendEnabled /\ EndedTodayWithin(p[2], W) }
        IN /\ W \in 1..60
           /\ Window = W
           /\ \A ch \in Fleet :
                 ch.autoSendEnabled =>
                    (PerChannel(ch).state = "current"
                       <=> \E T \in EnabledSlotMinutes(ch) : InWindow(T, nowMinutes, W))
           /\ (\E id \in DOMAIN Result : Result[id].state = "current")
                 <=> \E ch \in Fleet :
                        /\ ch.autoSendEnabled
                        /\ \E T \in EnabledSlotMinutes(ch) : InWindow(T, nowMinutes, W)
           /\ IF ended # {}
              THEN \E p \in ended :
                      /\ PickIs(pick, p[1], p[2])
                      /\ \A q \in ended : q[2] <= p[2]
              ELSE pick # <<>> =>
                      ~EndedTodayWithin(hhmmToMinutes(pick[1].timeSlot), W)

\* C19 witness: the argument 100 is used as 60: at 09:00 the slot 08:00 is no
\* longer active and is reported "previous", its window having just ended.
C19_Witness ==
    /\ Classified
    /\ minIntervalMinutes = 100
    /\ nowMinutes = 540
    /\ Len(channels) = 2
    /\ channels[1].autoSendSchedules[1].time = minutesToHHMM(480)
    /\ Result[channels[1].id].state = "previous"
    /\ Result[channels[1].id].timeSlot = minutesToHHMM(480)

\* C20: no call of the classifier changes a channel record (its flag, the
\* order and the contents of its slot list, the slots' lastRunAt) or the store.
C20_NoWrites == [][channels' = channels /\ db' = db]_vars

\* C20 witness: the classifier has been called twice on a fleet with a channel
\* whose slots are stored out of time order, and has reported that channel.
C20_Witness ==
    /\ pc = "again"
    /\ \E ch \in Fleet :
          /\ Len(ch.autoSendSchedules) >= 2
          /\ StrLess(ch.autoSendSchedules[2].time, ch.autoSendSchedules[1].time)
          /\ Result[ch.id].state # "default"

\* <<i, T>>: channel i is not the one reported "current", has automation on
\* and an enabled, well-formed slot at T that is not active at now
UpcomingSlots ==
    { p \in UNION { { <<i, T>> : T \in EnabledSlotMinutes(channels[i])
                                        \ ActiveSlotMinutes(channels[i]) } :
                      i \in NotCurrent } :
        channels[p[1]].autoSendEnabled }

\* C24: the slot reported "next" fires no later than any enabled, well-formed
\* slot, not active at now, of any automation-enabled channel other than the
\* one reported "current", the channels that have an active slot but are not
\* reported "current" included.
C24_NextIsSoonestUpcoming ==
    Classified =>
        LET upcoming == UpcomingSlots IN
        \A id \in DOMAIN Result :
            Result[id].state = "next" =>
                \A p \in upcoming :
                    MinutesUntil(hhmmToMinutes(Result[id].timeSlot)) <= MinutesUntil(p[2])

\* C25: a slot reported "previous" is not active at now.
C25_PreviousNotActive ==
    Classified =>
        \A id \in DOMAIN Result :
            Result[id].state = "previous" =>
                ~InWindow(hhmmToMinutes(Result[id].timeSlot), nowMinutes, Window)

\* the ids of the channels reported with state s
ReportedIds(s) == { id \in DOMAIN Result : Result[id].state = s }

\* C26: the final assignment gives "current" priority over "next" and "next"
\* over "previous".  At most one channel is reported "next" and at most one
\* "previous"; the channel of the current pick is reported "current", the
\* channel of the next pick "next" and the channel of the previous pick
\* "previous" unless it is the channel of the next pick too, in which case it is
\* reported "next" and no channel is reported "previous"; the channels
\* reported "current", "next" and "previous" are the channels of the picks.
C26_FinalPriority ==
    Classified =>
        LET cur == CurrentPick
            nxt == NextPick
            prev == PreviousPick
        IN /\ Cardinality(ReportedIds("next")) <= 1
           /\ Cardinality(ReportedIds("previous")) <= 1
           /\ ReportedIds("current") =
                 IF cur = <<>> THEN {} ELSE {cur[1].channelId}
           /\ ReportedIds("next") =
                 IF nxt = <<>> THEN {} ELSE {nxt[1].channelId} \ ReportedIds("current")
           /\ ReportedIds("previous") =
                 IF prev = <<>> THEN {}
                 ELSE {prev[1].channelId} \ (ReportedIds("current") \cup ReportedIds("next"))
           /\ nxt # <<>> /\ prev # <<>> /\ nxt[1].channelId = prev[1].channelId =>
                 /\ Result[nxt[1].channelId].state = "next"
                 /\ Result[nxt[1].channelId].timeSlot = nxt[1].timeSlot
                 /\ ReportedIds("previous") = {}

\* C26 witness: in a fleet of two channels one channel is the next pick and
\* the previous pick, it is reported "next" and nothing is reported "previous".
C26_Witness ==
    /\ Classified
    /\ Len(channels) = 2
    /\ NextPick # <<>> /\ PreviousPick # <<>>
    /\ NextPick[1].channelId = PreviousPick[1].channelId
    /\ Result[NextPick[1].channelId].state = "next"
    /\ ReportedIds("previous") = {}

(***************************************************************************)
(* Tick Processor.  The cron callback of the backend entry point calls     *)
(* processAutoSendTick() every minute and does not wait for the previous   *)
(* call to return.  The processor itself (services/autoSendScheduler) is   *)
(* modelled from its design: read the automation-enabled channels, find    *)
(* the due slots, skip those already fired today, run promptsPerRun        *)
(* generations for each of the others, then record lastRunAt = now with a  *)
(* conditional write.                                                      *)
(***************************************************************************)
MaxTicks == 2

MaxDate == 1

\* the minutes of the day at which the clock is observed: the slot time 08:00
\* and the minute after it (a tick at any other minute finds nothing due)
ClockMinutes == {480, 481}

\* date 0 is a Monday; weekday indexes are 0-6, Sunday first
Weekday(date) == (date + 1) % 7

NoRun == <<>>

StoredSchedule(id, enabled, days, time, promptsPerRun) ==
    [id |-> id, enabled |-> enabled, daysOfWeek |-> days, time |-> time,
     promptsPerRun |-> promptsPerRun, lastRunAt |-> NoRun]

ChannelB ==
    [id |-> "B", autoSendEnabled |-> TRUE,
     autoSendSchedules |->
         << StoredSchedule("b1", TRUE, Weekdays, minutesToHHMM(480), 1) >>]

ChannelA(automation, schedules) ==
    [id |-> "A", autoSendEnabled |-> automation, autoSendSchedules |-> schedules]

\* the stores the ticks start from: channel A in its variants, then channel B
InitialStores ==
    { << ChannelA(TRUE, << StoredSchedule("a1", TRUE, Weekdays, minutesToHHMM(480), 1),
                           StoredSchedule("a2", TRUE, Weekdays, minutesToHHMM(481), 1) >>),
         ChannelB >>,
      << ChannelA(TRUE, << StoredSchedule("a1", TRUE, Weekdays, minutesToHHMM(480), 2) >>),
         ChannelB >>,
      << ChannelA(TRUE, << StoredSchedule("a1", FALSE, Weekdays, minutesToHHMM(480), 1) >>),
         ChannelB >>,
      << ChannelA(TRUE, << StoredSchedule("a1", TRUE, {2}, minutesToHHMM(480), 1) >>),
         ChannelB >>,
      << ChannelA(FALSE, << StoredSchedule("a1", TRUE, Weekdays, minutesToHHMM(480), 1) >>),
         ChannelB >> }

\* listAutomationEnabledChannels()
RECURSIVE listAutomationEnabledChannels(_)
listAutomationEnabledChannels(store) ==
    IF Len(store) = 0 THEN <<>>
    ELSE IF store[1].autoSendEnabled
         THEN <<store[1]>> \o listAutomationEnabledChannels(Tail(store))
         ELSE listAutomationEnabledChannels(Tail(store))

IsDue_InWindow(channel, slot, now) ==
    /\ channel.autoSendEnabled
    /\ slot.enabled
    /\ Weekday(now.date) \in slot.daysOfWeek
    /\ ~IsNaN(hhmmToMinutes(slot.time))
    /\ isActive(hhmmToMinutes(slot.time), now.minute, ValidInterval(0))

\* step 2: the slot is due at the tick's minute
IsDue(channel, slot, now) ==
    /\ channel.autoSendEnabled
    /\ slot.enabled
    /\ Weekday(now.date) \in slot.daysOfWeek
    /\ hhmmToMinutes(slot.time) = now.minute

FiredToday_EverFired(slot, now) == slot.lastRunAt # NoRun

FiredToday_NoGate(slot, now) == FALSE

\* step 3, the idempotency gate: lastRunAt lies on the calendar date of now
FiredToday(slot, now) ==
    slot.lastRunAt # NoRun /\ slot.lastRunAt[1].date = now.date

\* the due, non-gated slots of one channel from slot k on, in order
RECURSIVE DueSlotsOf(_, _, _)
DueSlotsOf(channel, k, now) ==
    IF k > Len(channel.autoSendSchedules) THEN <<>>
    ELSE LET slot == channel.autoSendSchedules[k] IN
         IF IsDue(channel, slot, now) /\ ~FiredToday(slot, now)
         THEN << [channelId |-> channel.id, slotId |-> slot.id,
                  promptsPerRun |-> slot.promptsPerRun] >>
              \o DueSlotsOf(channel, k + 1, now)
         ELSE DueSlotsOf(channel, k + 1, now)

\* steps 2 and 3 over all channels read: the slots this tick is to fire
RECURSIVE WorkList(_, _)
WorkList(chs, now) ==
    IF Len(chs) = 0 THEN <<>>
    ELSE DueSlotsOf(chs[1], 1, now) \o WorkList(Tail(chs), now)

\* processAutoSendTick() up to its first generation call
BeginTick(store, now, finished) ==
    LET snapshot == listAutomationEnabledChannels(store)
        work == WorkList(snapshot, now)
    IN [now |-> now, snapshot |-> snapshot, work |-> work, pos |-> 1,
        results |-> <<>>, after |-> finished,
        status |-> IF Len(work) = 0 THEN "done" ELSE "running"]

OnGenerateResult_SkipRestOnFailure(tick, ok) ==
    IF ok THEN [tick EXCEPT !.results = Append(@, ok)]
    ELSE [tick EXCEPT !.results =
             [ n \in 1..tick.work[tick.pos].promptsPerRun |->
                 IF n <= Len(tick.results) THEN tick.results[n] ELSE FALSE ]]

OnGenerateResult_AbortOnFailure(tick, ok) ==
    IF ok THEN [tick EXCEPT !.results = Append(@, ok)]
    ELSE [tick EXCEPT !.results = Append(@, ok), !.status = "done"]

\* step 4: the outcome of one generation invocation is recorded, nothing else
OnGenerateResult(tick, ok) == [tick EXCEPT !.results = Append(@, ok)]

\* the conditional write: refused when the stored lastRunAt covers today
WriteAccepted(store, channelId, slotId, now) ==
    \E c \in 1..Len(store) :
        /\ store[c].id = channelId
        /\ \E k \in 1..Len(store[c].autoSendSchedules) :
              /\ store[c].autoSendSchedules[k].id = slotId
              /\ ~FiredToday(store[c].autoSendSchedules[k], now)

\* updateSlotLastFired(channelId, slotId, now)
updateSlotLastFired(store, channelId, slotId, now) ==
    [ c \in 1..Len(store) |->
        IF store[c].id # channelId THEN store[c]
        ELSE [ store[c] EXCEPT !.autoSendSchedules =
                 [ k \in 1..Len(@) |->
                     IF @[k].id = slotId /\ ~FiredToday(@[k], now)
                     THEN [ @[k] EXCEPT !.lastRunAt = <<now>> ]
                     ELSE @[k] ] ] ]

ShouldRecord_OnlyOnSuccess(tick) == \E i \in 1..Len(tick.results) : tick.results[i]

\* step 5: lastRunAt is recorded whatever the outcomes of the invocations
ShouldRecord(tick) == TRUE

Running(t) == t \in 1..Len(ticks) /\ ticks[t].status = "running"

Finished == { t \in 1..Len(ticks) : ticks[t].status = "done" }

\* if (process.env.ENABLE_CRON_SCHEDULER !== "false")
CronEnabled(env) == env # "false"

\* a rejection of processAutoSendTick() that nothing catches ends the process
OnTickError_Unhandled(d, t) == [d EXCEPT !.alive = FALSE]

\* catch (error) { Logger.error("Cron scheduler: error in auto-send tick", error) }
OnTickError(d, t) == [d EXCEPT !.logged = @ \cup {t}]

\* processAutoSendTick() when reading the channels from the store fails: the
\* call rejects before anything is fired
FailedTick(now, finished) ==
    [now |-> now, snapshot |-> <<>>, work |-> <<>>, pos |-> 1, results |-> <<>>,
     after |-> finished, status |-> "threw"]

InitTick ==
    /\ db \in InitialStores
    /\ clock = [date |-> 0, minute |-> 480]
    /\ ticks = <<>>
    /\ calls = {}
    /\ recorded = {}
    /\ edits = <<>>
    /\ driver = [env |-> "unset", alive |-> TRUE, logged |-> {}]
    /\ channels = <<>>
    /\ minIntervalMinutes = 11
    /\ nowMinutes = 0
    /\ states = <<>>
    /\ pc = "idle"

\* The cron callback calls processAutoSendTick().  Nothing keeps a call from
\* starting while an earlier one runs, and the same minute can be triggered
\* more than once (the scheduler of a second server instance, or the manual
\* tick endpoint that the entry point mounts beside the cron scheduler).
StartTick ==
    /\ driver.alive
    /\ CronEnabled(driver.env)
    /\ Len(ticks) < MaxTicks
    /\ ticks' = Append(ticks, BeginTick(db, clock, Finished))
    /\ UNCHANGED <<db, clock, calls, recorded, edits, driver>>
    /\ UNCHANGED classifierVars

\* one generation invocation of tick t returns: it succeeded, or it failed
\* (an error or the timeout)
Generate(t) ==
    /\ Running(t)
    /\ Len(ticks[t].results) < ticks[t].work[ticks[t].pos].promptsPerRun
    /\ \E ok \in BOOLEAN :
          /\ calls' = calls \cup
                { [tick |-> t, channelId |-> ticks[t].work[ticks[t].pos].channelId,
                   slotId |-> ticks[t].work[ticks[t].pos].slotId,
                   now |-> ticks[t].now, n |-> Len(ticks[t].results) + 1,
                   ok |-> ok] }
          /\ ticks' = [ticks EXCEPT ![t] = OnGenerateResult(ticks[t], ok)]
    /\ UNCHANGED <<db, clock, recorded, edits, driver>>
    /\ UNCHANGED classifierVars

\* all invocations of the slot were attempted: tick t records lastRunAt = now
\* and goes on to its next due slot
RecordFired(t) ==
    /\ Running(t)
    /\ Len(ticks[t].results) >= ticks[t].work[ticks[t].pos].promptsPerRun
    /\ LET item == ticks[t].work[ticks[t].pos]
           write == ShouldRecord(ticks[t])
       IN /\ db' = IF write
                   THEN updateSlotLastFired(db, item.channelId, item.slotId, ticks[t].now)
                   ELSE db
          /\ recorded' =
                IF write /\ WriteAccepted(db, item.channelId, item.slotId, ticks[t].now)
                THEN recorded \cup { [tick |-> t, channelId |-> item.channelId,
                                      slotId |-> item.slotId, now |-> ticks[t].now] }
                ELSE recorded
          /\ ticks' = [ticks EXCEPT ![t] =
                         [@ EXCEPT !.pos = @ + 1, !.results = <<>>,
                                   !.status = IF ticks[t].pos = Len(ticks[t].work)
                                              THEN "done" ELSE "running"]]
    /\ UNCHANGED <<clock, calls, edits, driver>>
    /\ UNCHANGED classifierVars

\* a minute passes; running ticks keep running
NextMinute ==
    /\ clock.minute + 1 \in ClockMinutes
    /\ clock' = [clock EXCEPT !.minute = @ + 1]
    /\ UNCHANGED <<db, ticks, calls, recorded, edits, driver>>
    /\ UNCHANGED classifierVars

\* the next day's 08:00 comes; every collaborator call carries a timeout of
\* some 25 s, so the ticks of the day before have returned long ago
NextDay ==
    /\ clock.date < MaxDate
    /\ \A t \in 1..Len(ticks) : ticks[t].status = "done"
    /\ clock' = [date |-> clock.date + 1, minute |-> 480]
    /\ UNCHANGED <<db, ticks, calls, recorded, edits, driver>>
    /\ UNCHANGED classifierVars

\* the cron callback calls processAutoSendTick() and the call rejects
TickThrows ==
    /\ driver.alive
    /\ CronEnabled(driver.env)
    /\ Len(ticks) < MaxTicks
    /\ ticks' = Append(ticks, FailedTick(clock, Finished))
    /\ driver' = OnTickError(driver, Len(ticks) + 1)
    /\ UNCHANGED <<db, clock, calls, recorded, edits>>
    /\ UNCHANGED classifierVars

Next ==
    \/ StartTick
    \/ \E t \in 1..MaxTicks : Generate(t)
    \/ \E t \in 1..MaxTicks : RecordFired(t)
    \/ NextMinute
    \/ NextDay

Spec == InitTick /\ [][Next]_vars

\* the values of ENABLE_CRON_SCHEDULER
EnvValues == {"unset", "true", "false"}

\* the server process starts, with the scheduler switched on or off
InitCron ==
    /\ db = << ChannelB >>
    /\ clock = [date |-> 0, minute |-> 480]
    /\ ticks = <<>>
    /\ calls = {}
    /\ recorded = {}
    /\ edits = <<>>
    /\ driver \in { [env |-> e, alive |-> TRUE, logged |-> {}] : e \in EnvValues }
    /\ channels = <<>>
    /\ minIntervalMinutes = 11
    /\ nowMinutes = 0
    /\ states = <<>>
    /\ pc = "idle"

\* the ticks of the cron driver, those that reject included
NextCron ==
    \/ StartTick
    \/ TickThrows
    \/ \E t \in 1..MaxTicks : Generate(t)
    \/ \E t \in 1..MaxTicks : RecordFired(t)
    \/ NextMinute

SpecCron == InitCron /\ [][NextCron]_vars

(***************************************************************************)
(* PATCH /api/channels/:id/schedule.  The handler validates the submitted  *)
(* times, reads the channel from the store, rebuilds the whole schedule    *)
(* array from what it read and writes the array back; the read and the     *)
(* write are two store calls with nothing holding them together.  An entry *)
(* of the submitted array is a string, kept as its characters, or a value  *)
(* of another type.                                                        *)
(***************************************************************************)
MaxEdits == 1

MAX_SLOTS == 10

Str(chars) == [string |-> TRUE, text |-> chars]

\* an entry that is not a string (a number, null)
NonString == [string |-> FALSE, text |-> <<>>]

\* !time.trim()
IsBlank(text) == \A k \in 1..Len(text) : text[k] = " "

\* /^\d{2}:\d{2}$/.test(time)
MatchesHHMM(text) ==
    /\ Len(text) = 5
    /\ IsDigit(text[1]) /\ IsDigit(text[2])
    /\ text[3] = ":"
    /\ IsDigit(text[4]) /\ IsDigit(text[5])

HoursOf(text) == 10 * DigitVal(text[1]) + DigitVal(text[2])

MinutesOf(text) == 10 * DigitVal(text[4]) + DigitVal(text[5])

OutOfRange_Hour24(text) ==
    HoursOf(text) < 0 \/ HoursOf(text) > 24 \/ MinutesOf(text) < 0 \/ MinutesOf(text) > 59

\* hours < 0 || hours > 23 || minutes < 0 || minutes > 59
OutOfRange(text) ==
    HoursOf(text) < 0 \/ HoursOf(text) > 23 \/ MinutesOf(text) < 0 \/ MinutesOf(text) > 59

Contains(seq, x) == \E k \in 1..Len(seq) : seq[k] = x

Rejected == [status |-> 400, times |-> <<>>]

\* the validation loop from entry k on, validatedTimes being the times kept so far
RECURSIVE ValidateFrom(_, _, _)
ValidateFrom(entries, k, validatedTimes) ==
    IF k > Len(entries) THEN [status |-> 0, times |-> validatedTimes]
    ELSE LET time == entries[k] IN
         IF ~time.string \/ IsBlank(time.text)
         THEN ValidateFrom(entries, k + 1, validatedTimes)
         ELSE IF ~MatchesHHMM(time.text) THEN Rejected
         ELSE IF OutOfRange(time.text) THEN Rejected
         ELSE ValidateFrom(entries, k + 1,
                           IF Contains(validatedTimes, time.text) THEN validatedTimes
                           ELSE Append(validatedTimes, time.text))

\* the validation of the request body: status 400, or the times to store
validateTimes(body) ==
    IF ~body.array THEN Rejected
    ELSE LET validated == ValidateFrom(body.entries, 1, <<>>) IN
         IF validated.status = 400 THEN Rejected
         ELSE IF Len(validated.times) > MAX_SLOTS THEN Rejected
         ELSE [status |-> 0, times |-> SortStrings(validated.times)]

\* randomUUID() in request e for the slot of position index
Uuid(e, index) == "uuid-" \o ToString(e) \o "-" \o ToString(index)

IsEnabledSlot(schedule) == schedule.enabled

IsDisabledSlot(schedule) == ~schedule.enabled

updatedSchedules_ByTimeOnly(existingSchedules, validatedTimes, e) ==
    [ index \in 1..Len(validatedTimes) |->
        StoredSchedule(Uuid(e, index), TRUE, Weekdays, validatedTimes[index], 1) ]

\* the array the handler writes: the enabled slots it read take the new times
\* by position, new slots are made for the times left, the disabled slots follow
updatedSchedules(existingSchedules, validatedTimes, e) ==
    LET enabledSchedules == SelectSeq(existingSchedules, IsEnabledSlot)
        disabledSchedules == SelectSeq(existingSchedules, IsDisabledSlot)
    IN [ index \in 1..Len(validatedTimes) |->
           IF index <= Len(enabledSchedules)
           THEN [ enabledSchedules[index] EXCEPT !.time = validatedTimes[index] ]
           ELSE StoredSchedule(Uuid(e, index), TRUE, Weekdays, validatedTimes[index], 1) ]
       \o disabledSchedules

ChannelExists(store, channelId) == \E c \in 1..Len(store) : store[c].id = channelId

SchedulesOfChannel(store, channelId) ==
    LET c == CHOOSE c \in 1..Len(store) : store[c].id = channelId
    IN store[c].autoSendSchedules

Respond(req, status) ==
    [channelId |-> req.channelId, available |-> req.available, body |-> req.body,
     times |-> <<>>, existing |-> <<>>, status |-> status, pc |-> "done"]

\* the handler up to and including channelRef.get()
HandleRequest(req, store) ==
    IF ~req.available THEN Respond(req, 503)
    ELSE LET validated == validateTimes(req.body) IN
         IF validated.status = 400 THEN Respond(req, 400)
         ELSE IF ~ChannelExists(store, req.channelId) THEN Respond(req, 404)
         ELSE [channelId |-> req.channelId, available |-> req.available,
               body |-> req.body, times |-> validated.times,
               existing |-> SchedulesOfChannel(store, req.channelId),
               status |-> 0, pc |-> "read"]

\* channelRef.update({ autoSendSchedules: updatedSchedules })
updateChannel(store, channelId, schedules) ==
    [ c \in 1..Len(store) |->
        IF store[c].id = channelId
        THEN [ store[c] EXCEPT !.autoSendSchedules = schedules ]
        ELSE store[c] ]

\* the request bodies: times that is not an array, and arrays of entries
NotAnArray == [array |-> FALSE, entries |-> <<>>]

Times(entries) == [array |-> TRUE, entries |-> entries]

At(m) == Str(minutesToHHMM(m))

PatchBodies ==
    { NotAnArray,
      Times(<<>>),
      Times(<< At(481) >>),
      Times(<< Str(<<" ", " ">>), At(481), NonString, At(480), Str(<<>>), At(481) >>),
      Times(<< Str(<<"8", ":", "0", "0">>) >>),
      Times(<< At(481), Str(<<"2", "4", ":", "0", "0">>) >>),
      Times(<< Str(<<"0", "8", ":", "6", "0">>) >>),
      Times([ k \in 1..(MAX_SLOTS + 1) |-> At(480 + MAX_SLOTS + 1 - k) ]),
      Times([ k \in 1..(MAX_SLOTS + 2) |-> At(480 + (k % MAX_SLOTS)) ]) }

\* the requests: for channel B, for a channel that does not exist, and one
\* that arrives while the store is not available
PatchRequests ==
    { [channelId |-> "B", available |-> TRUE, body |-> body] : body \in PatchBodies }
    \cup { [channelId |-> "Z", available |-> TRUE, body |-> body] :
              body \in {NotAnArray, Times(<< At(481) >>)} }
    \cup { [channelId |-> "B", available |-> FALSE, body |-> Times(<< At(481) >>)] }

\* channel B with an enabled slot at 08:00, a disabled slot and an enabled
\* slot of its own days and promptsPerRun
EditStore ==
    << [id |-> "B", autoSendEnabled |-> TRUE,
        autoSendSchedules |->
            << StoredSchedule("b1", TRUE, Weekdays, minutesToHHMM(480), 1),
               StoredSchedule("b0", FALSE, Weekdays, minutesToHHMM(420), 1),
               StoredSchedule("b2", TRUE, {2, 4}, minutesToHHMM(720), 2) >>] >>

InitEdit ==
    /\ db = EditStore
    /\ clock = [date |-> 0, minute |-> 480]
    /\ ticks = <<>>
    /\ calls = {}
    /\ recorded = {}
    /\ edits = <<>>
    /\ driver = [env |-> "unset", alive |-> TRUE, logged |-> {}]
    /\ channels = <<>>
    /\ minIntervalMinutes = 11
    /\ nowMinutes = 0
    /\ states = <<>>
    /\ pc = "idle"

\* a request arrives, is validated and, when valid, reads the channel
PatchSchedule ==
    /\ Len(edits) < MaxEdits
    /\ \E req \in PatchRequests : edits' = Append(edits, HandleRequest(req, db))
    /\ UNCHANGED <<db, clock, ticks, calls, recorded, driver>>
    /\ UNCHANGED classifierVars

\* request e writes the array built from what it read, and responds
PatchWrite(e) ==
    /\ e \in 1..Len(edits)
    /\ edits[e].pc = "read"
    /\ db' = updateChannel(db, edits[e].channelId,
                           updatedSchedules(edits[e].existing, edits[e].times, e))
    /\ edits' = [edits EXCEPT ![e] = [@ EXCEPT !.status = 200, !.pc = "done"]]
    /\ UNCHANGED <<clock, ticks, calls, recorded, driver>>
    /\ UNCHANGED classifierVars

\* schedule edits beside the ticks of one day
NextEdit ==
    \/ PatchSchedule
    \/ \E e \in 1..MaxEdits : PatchWrite(e)
    \/ StartTick
    \/ \E t \in 1..MaxTicks : Generate(t)
    \/ \E t \in 1..MaxTicks : RecordFired(t)
    \/ NextMinute

SpecEdit == InitEdit /\ [][NextEdit]_vars

Fired(schedule, date, minute) ==
    [ schedule EXCEPT !.lastRunAt = << [date |-> date, minute |-> minute] >> ]

ChannelOf(id, schedules) ==
    [id |-> id, autoSendEnabled |-> TRUE, autoSendSchedules |-> schedules]

\* the stores the requests meet when no tick is running: channel B with no
\* slot, with enabled and disabled slots in several orders, fired today or
\* not, alone or beside channel A
PatchStores ==
    { EditStore,
      << ChannelOf("B", <<>>) >>,
      << ChannelOf("B", << StoredSchedule("b0", FALSE, Weekdays, minutesToHHMM(420), 1) >>) >>,
      << ChannelOf("B", << Fired(StoredSchedule("b1", TRUE, Weekdays, minutesToHHMM(480), 1),
                                 0, 480) >>) >>,
      << ChannelOf("B", << StoredSchedule("b2", TRUE, {2, 4}, minutesToHHMM(720), 2),
                           StoredSchedule("b1", TRUE, Weekdays, minutesToHHMM(480), 1) >>) >>,
      << ChannelOf("B", << StoredSchedule("b0", FALSE, Weekdays, minutesToHHMM(420), 1),
                           Fired(StoredSchedule("b1", TRUE, Weekdays, minutesToHHMM(481), 3),
                                 0, 481),
                           StoredSchedule("b3", FALSE, {6, 0}, minutesToHHMM(480), 1) >>) >>,
      << ChannelA(TRUE, << StoredSchedule("a1", TRUE, Weekdays, minutesToHHMM(480), 1) >>),
         ChannelB >>,
      << ChannelB,
         ChannelA(FALSE, << StoredSchedule("a1", FALSE, Weekdays, minutesToHHMM(481), 1) >>) >> }

InitPatch ==
    /\ db \in PatchStores
    /\ clock = [date |-> 0, minute |-> 481]
    /\ ticks = <<>>
    /\ calls = {}
    /\ recorded = {}
    /\ edits = <<>>
    /\ driver = [env |-> "unset", alive |-> TRUE, logged |-> {}]
    /\ channels = <<>>
    /\ minIntervalMinutes = 11
    /\ nowMinutes = 0
    /\ states = <<>>
    /\ pc = "idle"

\* the requests alone, one after the other or overlapping
NextPatch ==
    \/ PatchSchedule
    \/ \E e \in 1..MaxEdits : PatchWrite(e)

SpecPatch == InitPatch /\ [][NextPatch]_vars

(***************************************************************************)
(* Properties of the Tick Processor (checked under Spec)                   *)
(***************************************************************************)
TickIds == 1..Len(ticks)

\* the time strings of the minutes of the day
HHMM == [ m \in 0..(MinutesPerDay - 1) |-> minutesToHHMM(m) ]

\* the slots for which tick t invoked the generation collaborator
FiredBy(t) == { <<c.channelId, c.slotId>> : c \in { d \in calls : d.tick = t } }

CallsOf(t, channelId, slotId) ==
    { c \in calls : c.tick = t /\ c.channelId = channelId /\ c.slotId = slotId }

\* the positions (channel, slot) of what tick t read from the store
PositionsRead(t) ==
    UNION { { <<i, k>> : k \in 1..Len(ticks[t].snapshot[i].autoSendSchedules) } :
            i \in 1..Len(ticks[t].snapshot) }

ChannelRead(t, ik) == ticks[t].snapshot[ik[1]]

SlotRead(t, ik) == ticks[t].snapshot[ik[1]].autoSendSchedules[ik[2]]

\* due as the design states it, spelled out on what the tick read
DueAsRead(t, ik) ==
    /\ ChannelRead(t, ik).autoSendEnabled
    /\ SlotRead(t, ik).enabled
    /\ Weekday(ticks[t].now.date) \in SlotRead(t, ik).daysOfWeek
    /\ SlotRead(t, ik).time = HHMM[ticks[t].now.minute]

GateOpenAsRead(t, ik) ==
    \/ SlotRead(t, ik).lastRunAt = NoRun
    \/ SlotRead(t, ik).lastRunAt[1].date # ticks[t].now.date

\* the lastRunAt the store holds for a slot
StoredLastRunAt(channelId, slotId) ==
    LET c == CHOOSE c \in 1..Len(db) : db[c].id = channelId
        k == CHOOSE k \in 1..Len(db[c].autoSendSchedules) :
                 db[c].autoSendSchedules[k].id = slotId
    IN db[c].autoSendSchedules[k].lastRunAt

\* tick t2 was started after tick t1 had returned
InSequence(t1, t2) == t1 \in ticks[t2].after

\* C1: at most once for ticks in sequence.  Two ticks run one after the other
\* for the same now fire a slot due at now exactly once, the first one firing
\* it and the second being stopped by the gate; two ticks run one after the
\* other on one calendar date never both fire the same slot; and the store
\* accepts at most one lastRunAt write for a slot and a calendar date.
C1_AtMostOncePerDate ==
    /\ \A t1 \in TickIds, t2 \in TickIds :
          InSequence(t1, t2) /\ ticks[t1].now.date = ticks[t2].now.date =>
             FiredBy(t1) \cap FiredBy(t2) = {}
    /\ \A t1 \in TickIds, t2 \in TickIds :
          InSequence(t1, t2) /\ ticks[t1].now = ticks[t2].now =>
             \A ik \in PositionsRead(t1) :
                DueAsRead(t1, ik) /\ GateOpenAsRead(t1, ik) =>
                   LET fired == <<ChannelRead(t1, ik).id, SlotRead(t1, ik).id>> IN
                   fired \in FiredBy(t1) /\ fired \notin FiredBy(t2)
    /\ \A r1 \in recorded, r2 \in recorded :
          /\ r1.channelId = r2.channelId /\ r1.slotId = r2.slotId
          /\ r1.now.date = r2.now.date
          => r1 = r2

\* C1 witness: two ticks in sequence for the same now, the first fired a slot,
\* the second returned without firing anything.
C1_Witness ==
    \E t1 \in TickIds, t2 \in TickIds :
        /\ InSequence(t1, t2) /\ ticks[t1].now = ticks[t2].now
        /\ ticks[t2].status = "done"
        /\ FiredBy(t1) # {}
        /\ FiredBy(t2) = {}

\* C2: two ticks, overlapping or not, never both invoke the generation
\* collaborator for the same slot on the same calendar date.
C2_NoDoubleFire ==
    \A t1 \in TickIds, t2 \in TickIds :
        t1 # t2 /\ ticks[t1].now.date = ticks[t2].now.date =>
           FiredBy(t1) \cap FiredBy(t2) = {}

\* C3: a failed generation call does not stop the tick.  Once a tick has
\* returned, every slot that was due and not gated when the tick read the
\* store has had its promptsPerRun invocations from that tick and carries a
\* lastRunAt of the tick's date or later, whatever failed before it; and a
\* tick that has not returned always has a slot to go on with.
C3_FailureIsolation ==
    \A t \in TickIds :
        /\ ticks[t].status = "done" =>
              \A ik \in PositionsRead(t) :
                 DueAsRead(t, ik) /\ GateOpenAsRead(t, ik) =>
                    LET channelId == ChannelRead(t, ik).id
                        slot == SlotRead(t, ik)
                        lastRunAt == StoredLastRunAt(channelId, slot.id)
                    IN /\ Cardinality(CallsOf(t, channelId, slot.id)) = slot.promptsPerRun
                       /\ lastRunAt # NoRun
                       /\ lastRunAt[1].date >= ticks[t].now.date
        /\ ticks[t].status = "running" => ticks[t].pos <= Len(ticks[t].work)

\* C3 witness: a generation call for channel A failed in a tick, channel B's
\* slot was fired by the same tick afterwards and carries the tick's now.
C3_Witness ==
    \E t \in TickIds :
        /\ ticks[t].status = "done"
        /\ \E c \in calls : c.tick = t /\ c.channelId = "A" /\ ~c.ok
        /\ \E c \in calls : c.tick = t /\ c.channelId = "B"
        /\ StoredLastRunAt("B", "b1") = <<ticks[t].now>>

\* the slots of tick t's work list whose invocations were all attempted
Attempted(t) ==
    { ticks[t].work[i] :
        i \in { j \in 1..Len(ticks[t].work) :
                  j < ticks[t].pos \/ ticks[t].status = "done" } }

\* C4: a firing attempt is recorded even on failure.  Once a tick has attempted
\* the invocations of a slot, the store holds a lastRunAt write for that slot
\* and the tick's date and the slot carries a lastRunAt of that date or later,
\* whether the invocations succeeded or not; and a slot whose invocations all
\* failed is not fired by a tick started later on the same date.
C4_RecordedEvenOnFailure ==
    /\ \A t \in TickIds :
          \A item \in Attempted(t) :
             LET lastRunAt == StoredLastRunAt(item.channelId, item.slotId) IN
             /\ \E r \in recorded :
                   /\ r.channelId = item.channelId /\ r.slotId = item.slotId
                   /\ r.now.date = ticks[t].now.date
             /\ lastRunAt # NoRun
             /\ lastRunAt[1].date >= ticks[t].now.date
    /\ \A t1 \in TickIds, t2 \in TickIds :
          InSequence(t1, t2) /\ ticks[t1].now.date = ticks[t2].now.date =>
             \A item \in Attempted(t1) :
                (\A c \in CallsOf(t1, item.channelId, item.slotId) : ~c.ok) =>
                   <<item.channelId, item.slotId>> \notin FiredBy(t2)

\* C4 witness: every invocation of slot b1 failed in a tick, lastRunAt is that
\* tick's now, and a tick started later for the same minute did not fire it.
C4_Witness ==
    \E t1 \in TickIds, t2 \in TickIds :
        /\ InSequence(t1, t2) /\ ticks[t1].now = ticks[t2].now
        /\ ticks[t2].status = "done"
        /\ CallsOf(t1, "B", "b1") # {}
        /\ \A c \in CallsOf(t1, "B", "b1") : ~c.ok
        /\ StoredLastRunAt("B", "b1") = <<ticks[t1].now>>
        /\ CallsOf(t2, "B", "b1") = {}

\* C5: a slot is fired only if it is due.  Every generation invocation is for
\* a slot that the tick read as enabled, of a channel with automation on, with
\* today's weekday among its daysOfWeek and with a time equal to the tick's
\* minute of day; in particular no tick fires a slot at a later minute of the
\* slot's active window.
C5_FiresOnlyIfDue ==
    \A c \in calls :
        \E ik \in PositionsRead(c.tick) :
            /\ ChannelRead(c.tick, ik).id = c.channelId
            /\ SlotRead(c.tick, ik).id = c.slotId
            /\ ChannelRead(c.tick, ik).autoSendEnabled
            /\ SlotRead(c.tick, ik).enabled
            /\ Weekday(c.now.date) \in SlotRead(c.tick, ik).daysOfWeek
            /\ SlotRead(c.tick, ik).time = HHMM[c.now.minute]

\* C5 witness: a tick at 08:01 fired the 08:01 slot and returned without firing
\* the enabled, never fired 08:00 slot in whose active window 08:01 lies.
C5_Witness ==
    \E t \in TickIds :
        /\ ticks[t].status = "done"
        /\ ticks[t].now.minute = 481
        /\ <<"A", "a2">> \in FiredBy(t)
        /\ \E ik \in PositionsRead(t) :
              /\ ChannelRead(t, ik).id = "B" /\ SlotRead(t, ik).id = "b1"
              /\ SlotRead(t, ik).enabled
              /\ Weekday(ticks[t].now.date) \in SlotRead(t, ik).daysOfWeek
              /\ SlotRead(t, ik).lastRunAt = NoRun
              /\ InWindow(hhmmToMinutes(SlotRead(t, ik).time), ticks[t].now.minute, 11)
        /\ <<"B", "b1">> \notin FiredBy(t)

\* the numbers of the invocations tick t made for a slot
CallNumbers(t, channelId, slotId) == { c.n : c \in CallsOf(t, channelId, slotId) }

\* C21: promptsPerRun invocations per firing.  A tick that has gone through a
\* due, non-gated slot has attempted exactly promptsPerRun generation
\* invocations for it, numbered 1 to promptsPerRun with one outcome each;
\* invocation n is attempted only after the invocations 1 to n - 1 of the slot,
\* whether they failed or not; and for the slot a tick is working on, each
\* invocation made so far has its own recorded outcome.
C21_PromptsPerRunInvocations ==
    /\ \A t \in TickIds :
          /\ \A item \in Attempted(t) :
                LET made == CallsOf(t, item.channelId, item.slotId) IN
                /\ Cardinality(made) = item.promptsPerRun
                /\ { c.n : c \in made } = 1..item.promptsPerRun
          /\ ticks[t].status = "running" =>
                LET item == ticks[t].work[ticks[t].pos]
                    made == CallsOf(t, item.channelId, item.slotId)
                IN /\ { c.n : c \in made } = 1..Len(ticks[t].results)
                   /\ \A c \in made : ticks[t].results[c.n] = c.ok
    /\ \A c \in calls :
          c.n > 1 => 1..(c.n - 1) \subseteq CallNumbers(c.tick, c.channelId, c.slotId)

\* C21 witness: slot a1 has promptsPerRun 2; its first invocation failed, its
\* second one was attempted all the same and succeeded, and the tick went on.
C21_Witness ==
    \E t \in TickIds :
        /\ \E item \in Attempted(t) :
              item.channelId = "A" /\ item.slotId = "a1" /\ item.promptsPerRun = 2
        /\ \E c \in CallsOf(t, "A", "a1") : c.n = 1 /\ ~c.ok
        /\ \E c \in CallsOf(t, "A", "a1") : c.n = 2 /\ c.ok

\* C23: the gate blocks only the current day's occurrence.  A tick that has
\* returned has fired every slot it read as due whose lastRunAt was absent or
\* on an earlier date than the tick's; so a slot fired on one date, which
\* carries that date as lastRunAt, is fired again by the tick of a later date
\* that reads it as due.
C23_GateOnlyToday ==
    \A t \in TickIds :
        ticks[t].status = "done" =>
           LET fired == FiredBy(t) IN
           \A ik \in PositionsRead(t) :
              /\ DueAsRead(t, ik)
              /\ \/ SlotRead(t, ik).lastRunAt = NoRun
                 \/ SlotRead(t, ik).lastRunAt[1].date < ticks[t].now.date
              => <<ChannelRead(t, ik).id, SlotRead(t, ik).id>> \in fired

\* C23 witness: slot b1 was fired by a tick of date 0, carried that date as
\* lastRunAt when a tick of date 1 read it, and was fired again by that tick.
C23_Witness ==
    \E t1 \in TickIds, t2 \in TickIds :
        /\ ticks[t1].now.date = 0 /\ ticks[t2].now.date = 1
        /\ ticks[t2].status = "done"
        /\ <<"B", "b1">> \in FiredBy(t1)
        /\ <<"B", "b1">> \in FiredBy(t2)
        /\ \E ik \in PositionsRead(t2) :
              /\ ChannelRead(t2, ik).id = "B" /\ SlotRead(t2, ik).id = "b1"
              /\ SlotRead(t2, ik).lastRunAt # NoRun
              /\ SlotRead(t2, ik).lastRunAt[1].date = 0

(***************************************************************************)
(* Properties of the cron driver (checked under SpecCron)                  *)
(***************************************************************************)
\* C27: failure containment in the cron driver.  A tick whose
\* processAutoSendTick() call rejected has its error logged by the callback
\* and leaves the process alive; as long as the scheduler is on, the next tick
\* can be triggered whatever the earlier ticks did, those that rejected and
\* those that have not returned included; and when ENABLE_CRON_SCHEDULER is
\* "false" the process triggers no tick at all.
C27_CronFailureContainment ==
    /\ \A t \in TickIds : ticks[t].status = "threw" => t \in driver.logged
    /\ driver.alive
    /\ driver.env # "false" /\ Len(ticks) < MaxTicks => ENABLED StartTick
    /\ driver.env = "false" => ticks = <<>>

\* C27 witness: the first tick rejected and was logged, a second tick was
\* triggered after it at the next minute while nothing had stopped.
C27_Witness ==
    /\ Len(ticks) = 2
    /\ ticks[1].status = "threw" /\ 1 \in driver.logged
    /\ ticks[2].now.minute = ticks[1].now.minute + 1
    /\ ticks[2].status = "done"

(***************************************************************************)
(* Properties of the schedule edit (checked under SpecPatch and SpecEdit)  *)
(***************************************************************************)
EditIds == 1..Len(edits)

\* the slot of an id in a schedule array, <<>> when the array has none
SlotsOfId(schedules, id) ==
    { schedules[k] : k \in { j \in 1..Len(schedules) : schedules[j].id = id } }

\* C22: only the tick processor changes a stored lastRunAt.  In a step that is
\* not a step of a tick, every slot that is in the store before and after the
\* step has the same lastRunAt before and after it; in particular the write of
\* a schedule edit that read the channel before a tick recorded lastRunAt does
\* not take that lastRunAt away.
C22_SoleWriterOfLastFired ==
    [][ ticks' = ticks =>
          \A c \in 1..Len(db) :
             \A old \in { db[c].autoSendSchedules[k] :
                            k \in 1..Len(db[c].autoSendSchedules) } :
                \A new \in SlotsOfId(db'[c].autoSendSchedules, old.id) :
                   new.lastRunAt = old.lastRunAt ]_vars

\* a time of day written HH:MM with two digits each, 00:00 to 23:59
IsTimeOfDay(text) ==
    LET m == hhmmToMinutes(text) IN
    /\ ~IsNaN(m)
    /\ m \in 0..(MinutesPerDay - 1)
    /\ minutesToHHMM(m) = text

\* the non-blank strings among the entries of a body
SubmittedStrings(body) ==
    { body.entries[k].text :
        k \in { j \in 1..Len(body.entries) :
                  body.entries[j].string /\ ~IsBlank(body.entries[j].text) } }

InvalidBody(body) ==
    \/ ~body.array
    \/ \E text \in SubmittedStrings(body) : ~IsTimeOfDay(text)
    \/ Cardinality(SubmittedStrings(body)) > MAX_SLOTS

\* the answer the claim requires for a request, 0 when it requires none
RequiredStatus(edit) ==
    IF ~edit.available THEN 0
    ELSE IF InvalidBody(edit.body) THEN 400
    ELSE IF ~ChannelExists(db, edit.channelId) THEN 404
    ELSE 0

\* C28: a request that reaches the handler with the store available is
\* answered 400 when its times is not an array, when a non-blank string entry
\* is not a time of day written HH:MM, or when more than 10 distinct times are
\* left; it is answered 404 when the body is valid and the channel does not
\* exist; and the step that answers 400 or 404 leaves the store as it was.
\* Stated of every step in which a request arrives or goes on.
C28_PatchRejects ==
    [][ \A e \in 1..Len(edits') :
          e \notin EditIds \/ edits[e] # edits'[e] =>
             LET required == RequiredStatus(edits'[e]) IN
             /\ required # 0 => edits'[e].status = required
             /\ edits'[e].status \in {400, 404} => db' = db ]_vars

\* C28 witness: a request with eleven distinct valid times for a channel whose
\* slot was fired today was answered 400 and the store is as it was.
C28_Witness ==
    \E e \in EditIds :
        /\ edits[e].status = 400
        /\ edits[e].body.array
        /\ Cardinality(SubmittedStrings(edits[e].body)) = MAX_SLOTS + 1
        /\ \A text \in SubmittedStrings(edits[e].body) : IsTimeOfDay(text)
        /\ db \in PatchStores
        /\ \E k \in 1..Len(SchedulesOfChannel(db, edits[e].channelId)) :
              SchedulesOfChannel(db, edits[e].channelId)[k].lastRunAt # NoRun

\* the times a valid body asks for, as minutes of the day
SubmittedMinutes(body) == { hhmmToMinutes(text) : text \in SubmittedStrings(body) }

IdsOf(schedules) == { schedules[k].id : k \in 1..Len(schedules) }

\* request e is answered 200 in this step
Succeeds(e) == e \in EditIds /\ edits[e].pc = "read" /\ edits'[e].status = 200

\* C29: the schedule a successful PATCH leaves in the store.  Right after the
\* write the enabled slots come first, one for each distinct submitted time, in
\* ascending order of time and at most 10 of them; the slots that were disabled
\* before the write follow them, unchanged and in their order; an enabled slot
\* that stood before the write at a position beyond the number of submitted
\* times is gone; and no two slots of the channel have the same id.
C29_StoredAfterPatch ==
    [][ \A e \in EditIds :
          Succeeds(e) =>
             LET before == SchedulesOfChannel(db, edits[e].channelId)
                 after == SchedulesOfChannel(db', edits[e].channelId)
                 enabledBefore == SelectSeq(before, IsEnabledSlot)
                 enabledAfter == SelectSeq(after, IsEnabledSlot)
                 disabledAfter == SelectSeq(after, IsDisabledSlot)
                 minutes == [ k \in 1..Len(enabledAfter) |->
                                hhmmToMinutes(enabledAfter[k].time) ]
             IN /\ after = enabledAfter \o disabledAfter
                /\ { minutes[k] : k \in 1..Len(enabledAfter) }
                      = SubmittedMinutes(edits[e].body)
                /\ \A k \in 1..(Len(enabledAfter) - 1) : minutes[k] < minutes[k + 1]
                /\ Len(enabledAfter) <= MAX_SLOTS
                /\ disabledAfter = SelectSeq(before, IsDisabledSlot)
                /\ \A k \in 1..Len(enabledBefore) :
                      k > Len(enabledAfter) => enabledBefore[k].id \notin IdsOf(after)
                /\ Cardinality(IdsOf(after)) = Len(after) ]_vars

\* C29 witness: a request of twelve entries with ten distinct times was
\* answered 200; the store holds ten enabled slots, the two that were enabled
\* before among them, and the disabled slot after them.
C29_Witness ==
    \E e \in EditIds :
        /\ edits[e].status = 200
        /\ Len(edits[e].body.entries) = MAX_SLOTS + 2
        /\ LET stored == SchedulesOfChannel(db, edits[e].channelId) IN
           /\ Len(stored) = MAX_SLOTS + 1
           /\ \A k \in 1..MAX_SLOTS : stored[k].enabled
           /\ stored[1].id = "b1" /\ stored[2].id = "b2"
           /\ stored[MAX_SLOTS + 1].id = "b0" /\ ~stored[MAX_SLOTS + 1].enabled

\* C30: a slot that was fired on a date and is moved to a later minute is not
\* fired again on that date.  Of two ticks of one date, the second started at
\* a later minute and after the first had returned, no slot is fired by both.
C30_RetimedSlotNotRefired ==
    \A t1 \in TickIds, t2 \in TickIds :
        /\ InSequence(t1, t2)
        /\ ticks[t1].now.date = ticks[t2].now.date
        /\ ticks[t1].now.minute < ticks[t2].now.minute
        => FiredBy(t1) \cap FiredBy(t2) = {}

====
